---- MODULE Spec2Model ----
(***************************************************************************)
(* A model of fkbutils' database wrappers:                                 *)
(*   - MongoWrapper (dbwrapper/mongo.py): set/get/exists/delete/flush over *)
(*     a namespaced document collection keyed by _id;                      *)
(*   - RedisWrapper (dbwrapper/redis.py): the queue operations and the     *)
(*     publish/subscribe loop;                                             *)
(*   - PostgresWrapper (dbwrapper/postgres.py): the statement builders and *)
(*     the calls that connect to the server.                               *)
(* Each component has its own specification over the shared variables:     *)
(* SpecMongo (one caller, whole handlers), SpecRace (two callers inside    *)
(* _upsert, one backend call per step), SpecQueue, SpecSub, SpecPg (every  *)
(* PostgresWrapper method) and SpecPgTable (get_table over the table       *)
(* descriptors).                                                           *)
(***************************************************************************)
EXTENDS Integers, Sequences, FiniteSets, TLC

VARIABLES
    store,       \* mongo server: namespace -> (_id -> payload, or NoDoc)
    database,    \* MongoWrapper.database (default database)
    collection,  \* MongoWrapper.collection (default collection)
    mret,        \* the last MongoWrapper call of the single caller and its outcome
    mprev,       \* the server state when that call began
    rpc,         \* SpecRace: position of each caller inside _upsert
    rargs,       \* SpecRace: each caller's (key, value)
    rdoc,        \* SpecRace: each caller's local `document` (result of find_one)
    rerr,        \* SpecRace: how each caller's call ended
    applied,     \* SpecRace: the callers whose write reached the store, in order
    lists,       \* redis server: list key -> the list's entries, head first
    pushed,      \* per queue, the Python values pushed and not yet popped, oldest first
    qret,        \* the last queue call of the single caller and what it returned
    qprev,       \* lists and pushed when that call began
    sub,         \* the arguments of the subscribe_to_channel call
    cpc,         \* the caller of subscribe_to_channel: idle, in_loop, returned
    lpc,         \* position of subscription_while_task
    subscribed,  \* the server holds the handle's subscription to sub.channel
    wire,        \* messages the server has sent to the handle, still in transit
    subbuf,      \* messages that have arrived at the handle and are unread
    msg,         \* the loop's local msg
    calls,       \* the arguments of the callback's invocations so far, in order
    now,         \* wall clock, in seconds
    start,       \* the loop's local start
    published,   \* every publish so far, in order: whether the loop was running or
                 \* had ended, and whether the server sent it to the handle
    connect_args, \* PostgresWrapper.connect_args
    args,        \* PostgresWrapper.args
    pgctor,      \* connect_args and args as the constructor left them
    cursors,     \* cursors the caller holds, each on its open connection
    pgrows,      \* postgres server: the committed rows of the table
    pret,        \* the last PostgresWrapper call and its outcome
    pprev,       \* the adapter and the server when that call began
    kv,          \* redis server: key -> the stored bytes, or KvAbsent
    kvpc,        \* the caller of get_value_by_key: idle, exists, get
    kvkey,       \* the key of that call
    kvseen,      \* the values stored under that key at some time during the call
    kvret        \* how the last get_value_by_key call ended, and kvseen then

mongoVars == <<store, database, collection, mret, mprev>>
raceVars == <<rpc, rargs, rdoc, rerr, applied>>
queueVars == <<lists, pushed, qret, qprev>>
subVars == <<sub, cpc, lpc, subscribed, wire, subbuf, msg, calls, now, start, published>>
pgVars == <<connect_args, args, pgctor, cursors, pgrows, pret, pprev>>
kvVars == <<kv, kvpc, kvkey, kvseen, kvret>>

(***************************************************************************)
(* Values                                                                  *)
(***************************************************************************)
\* Python's None
PyNone == "None"
\* a keyword argument that the caller did not pass
NoArg == "<not passed>"
\* no document with that _id (find_one's None)
NoDoc == "<no document>"
\* a field of a call record that the call does not have
NA == "-"

DBs == {"db0", "db1"}
Colls == {"c0", "c1"}
Keys == {"k1", "k2"}
Payloads == {"v1", "v2"}
Namespaces == DBs \X Colls
\* the keyword arguments of a call: database and collection, each optional
Kwargs == [database : DBs \cup {NoArg}, collection : Colls \cup {NoArg}]
NoKwargs == [database |-> NoArg, collection |-> NoArg]

\* the most documents the modelled server holds
MaxDocs == 3

EmptyColl == [k \in Keys |-> NoDoc]
DocCount(st) == Cardinality({x \in Namespaces \X Keys : st[x[1]][x[2]] # NoDoc})

(***************************************************************************)
(* pymongo's collection operations, on a server state st                   *)
(***************************************************************************)
find_one(st, coll, key) == st[coll][key]

\* the _id index is unique: inserting an existing _id raises DuplicateKeyError
insert_one(st, coll, key, value) ==
    IF st[coll][key] # NoDoc
    THEN [err |-> "DuplicateKeyError", st |-> st]
    ELSE [err |-> "ok", st |-> [st EXCEPT ![coll][key] = value]]

\* {"$set": {"payload": value}} on the document with that _id, if there is one
update_one(st, coll, key, value) ==
    IF st[coll][key] = NoDoc THEN st ELSE [st EXCEPT ![coll][key] = value]

delete_one_all(st, coll, key) == [st EXCEPT ![coll] = EmptyColl]
delete_one(st, coll, key) == [st EXCEPT ![coll][key] = NoDoc]

drop(st, coll) == [st EXCEPT ![coll] = EmptyColl]

(***************************************************************************)
(* MongoWrapper                                                            *)
(***************************************************************************)
get_collection(db, coll) == <<db, coll>>

get_collection_from_kwargs_tied(kw) ==
    IF kw.collection # NoArg /\ kw.database # NoArg
    THEN get_collection(kw.database, kw.collection)
    ELSE get_collection(database, collection)
get_collection_from_kwargs(kw) ==
    LET coll == IF kw.collection # NoArg THEN kw.collection ELSE collection
        db == IF kw.database # NoArg THEN kw.database ELSE database
    IN  get_collection(db, coll)

Mongo_upsert(st, key, value, kw) ==
    LET coll == get_collection_from_kwargs(kw)
        document == find_one(st, coll, key)
        ins == insert_one(st, coll, key, value)
    IN  IF document = NoDoc
        THEN IF ins.err = "DuplicateKeyError"
             THEN [err |-> "ok", st |-> update_one(st, coll, key, value)]
             ELSE ins
        ELSE ins

Mongo_set(st, key, value, kw) == Mongo_upsert(st, key, value, kw)

Mongo_get_by_id(st, key, kw) ==
    LET coll == get_collection_from_kwargs(kw)
        doc == find_one(st, coll, key)
    IN  IF doc = NoDoc THEN PyNone ELSE doc

Mongo_get_unchecked(st, key, kw) ==
    [err |-> "ok", res |-> Mongo_get_by_id(st, key, kw)]
Mongo_get(st, key, kw) ==
    LET value == Mongo_get_by_id(st, key, kw)
    IN  IF value = PyNone
        THEN [err |-> "KeyError", res |-> NA]
        ELSE [err |-> "ok", res |-> value]

\* the method has a docstring and no body: it returns None
Mongo_exists(st, key, kw) == PyNone

Mongo_delete(st, key, kw) == delete_one(st, get_collection_from_kwargs(kw), key)

\* pymongo's Database has no drop method: database.drop is the collection named
\* "drop", and calling a Collection raises TypeError
Database_drop(st, db) == [err |-> "TypeError", st |-> st]

Mongo_flush(st, kw) ==
    IF kw.database # NoArg
    THEN IF kw.collection # NoArg
         THEN [err |-> "ok", st |-> drop(st, get_collection_from_kwargs(kw))]
         ELSE Database_drop(st, kw.database)
    ELSE IF kw.collection # NoArg
         THEN [err |-> "ok", st |-> drop(st, get_collection_from_kwargs(kw))]
         ELSE [err |-> "ok", st |-> drop(st, get_collection_from_kwargs(NoKwargs))]

\* Python truthiness of a returned value
Truthy(v) == v \notin {PyNone, NA}

(***************************************************************************)
(* SpecMongo: one caller, one action per MongoWrapper method               *)
(***************************************************************************)
Call(op, key, val, kw, err, res) ==
    [op |-> op, key |-> key, val |-> val, kw |-> kw, err |-> err, res |-> res]

MongoInit ==
    /\ store = [ns \in Namespaces |-> EmptyColl]
    /\ database = "db0"
    /\ collection = "c0"
    /\ mret = Call("init", NA, NA, NoKwargs, "ok", NA)
    /\ mprev = store

MSet(k, v, kw) ==
    LET r == Mongo_set(store, k, v, kw)
    IN  /\ DocCount(r.st) <= MaxDocs
        /\ store' = r.st
        /\ mret' = Call("set", k, v, kw, r.err, NA)
        /\ mprev' = store
        /\ UNCHANGED <<database, collection>>

MGet(k, kw) ==
    LET r == Mongo_get(store, k, kw)
    IN  /\ mret' = Call("get", k, NA, kw, r.err, r.res)
        /\ mprev' = store
        /\ UNCHANGED <<store, database, collection>>

MExists(k, kw) ==
    /\ mret' = Call("exists", k, NA, kw, "ok", Mongo_exists(store, k, kw))
    /\ mprev' = store
    /\ UNCHANGED <<store, database, collection>>

MDelete(k, kw) ==
    /\ store' = Mongo_delete(store, k, kw)
    /\ mret' = Call("delete", k, NA, kw, "ok", NA)
    /\ mprev' = store
    /\ UNCHANGED <<database, collection>>

MFlush(kw) ==
    LET r == Mongo_flush(store, kw)
    IN  /\ store' = r.st
        /\ mret' = Call("flush", NA, NA, kw, r.err, NA)
        /\ mprev' = store
        /\ UNCHANGED <<database, collection>>

MongoNext ==
    \/ \E k \in Keys, v \in Payloads, kw \in Kwargs : MSet(k, v, kw)
    \/ \E k \in Keys, kw \in Kwargs : MGet(k, kw)
    \/ \E k \in Keys, kw \in Kwargs : MExists(k, kw)
    \/ \E k \in Keys, kw \in Kwargs : MDelete(k, kw)
    \/ \E kw \in Kwargs : MFlush(kw)

(***************************************************************************)
(* SpecRace: two callers, each inside one set() on the default namespace,  *)
(* one backend call per step                                               *)
(***************************************************************************)
Callers == {"A", "B"}

RaceInit ==
    /\ rpc = [c \in Callers |-> "idle"]
    /\ rargs = [c \in Callers |-> [key |-> NA, value |-> NA]]
    /\ rdoc = [c \in Callers |-> NA]
    /\ rerr = [c \in Callers |-> NA]
    /\ applied = <<>>

\* set(key, value) is called: _upsert resolves the collection
RCall(c, k, v) ==
    /\ rpc[c] = "idle"
    /\ rargs' = [rargs EXCEPT ![c] = [key |-> k, value |-> v]]
    /\ rpc' = [rpc EXCEPT ![c] = "find"]
    /\ UNCHANGED <<store, rdoc, rerr, applied>>

\* document = collection.find_one({"_id": key})
RFind(c) ==
    /\ rpc[c] = "find"
    /\ rdoc' = [rdoc EXCEPT ![c] =
                  find_one(store, get_collection_from_kwargs(NoKwargs), rargs[c].key)]
    /\ rpc' = [rpc EXCEPT ![c] = "insert"]
    /\ UNCHANGED <<store, rargs, rerr, applied>>

\* collection.insert_one(...), in the try of the `document is None` branch or bare
RInsert(c) ==
    /\ rpc[c] = "insert"
    /\ LET r == insert_one(store, get_collection_from_kwargs(NoKwargs),
                           rargs[c].key, rargs[c].value)
       IN  /\ store' = r.st
           /\ IF r.err = "ok"
              THEN /\ rpc' = [rpc EXCEPT ![c] = "done"]
                   /\ rerr' = [rerr EXCEPT ![c] = "ok"]
                   /\ applied' = Append(applied, c)
              ELSE IF rdoc[c] = NoDoc
              THEN /\ rpc' = [rpc EXCEPT ![c] = "update"]
                   /\ UNCHANGED <<rerr, applied>>
              ELSE /\ rpc' = [rpc EXCEPT ![c] = "done"]
                   /\ rerr' = [rerr EXCEPT ![c] = r.err]
                   /\ UNCHANGED applied
    /\ UNCHANGED <<rargs, rdoc>>

\* except DuplicateKeyError: collection.update_one(...)
RUpdate(c) ==
    /\ rpc[c] = "update"
    /\ store' = update_one(store, get_collection_from_kwargs(NoKwargs),
                           rargs[c].key, rargs[c].value)
    /\ rpc' = [rpc EXCEPT ![c] = "done"]
    /\ rerr' = [rerr EXCEPT ![c] = "ok"]
    /\ applied' = Append(applied, c)
    /\ UNCHANGED <<rargs, rdoc>>

RaceNext ==
    \/ \E c \in Callers, k \in Keys, v \in Payloads : RCall(c, k, v)
    \/ \E c \in Callers : RFind(c)
    \/ \E c \in Callers : RInsert(c)
    \/ \E c \in Callers : RUpdate(c)

(***************************************************************************)
(* Python values of the redis wrapper: each value carries its type         *)
(***************************************************************************)
RNone == [type |-> "NoneType"]
PyInt(n) == [type |-> "int", v |-> n]
PyDict(i) == [type |-> "dict", id |-> i]
PyBytes(text) == [type |-> "bytes", s |-> text]
PyTuple(a, b) == [type |-> "tuple", items |-> <<a, b>>]

QueueNames == {"jobs", "mail"}
\* the values a caller pushes: {"id": 1}, {"id": 2}
QueueValues == {PyDict(1), PyDict(2)}
\* blpop's timeout in seconds
Timeouts == {1, 2}
\* the most entries a modelled list holds
MaxQueueLen == 2

\* json.dumps of {"id": i}: the text {"id": i}
json_dumps(value) == "{\"id\": " \o ToString(value.id) \o "}"

queue_key(queue) == "queue:" \o queue
ListKeys == {queue_key(q) : q \in QueueNames}

(***************************************************************************)
(* redis-py's list commands, on the server's lists ls                      *)
(***************************************************************************)
\* RPUSH: the text, encoded to bytes, is appended at the tail
rpush(ls, name, text) == [ls EXCEPT ![name] = Append(@, PyBytes(text))]

\* LLEN
llen(ls, name) == PyInt(Len(ls[name]))

\* BLPOP of one key: the pair (key, head) with the head removed, or None once
\* the timeout has elapsed on an empty list
blpop(ls, name, timeout) ==
    IF ls[name] # <<>>
    THEN [res |-> PyTuple(PyBytes(name), Head(ls[name])),
          ls |-> [ls EXCEPT ![name] = Tail(@)]]
    ELSE [res |-> RNone, ls |-> ls]

(***************************************************************************)
(* RedisWrapper: queues                                                    *)
(***************************************************************************)
Redis_put_on_queue(ls, queue, value) == rpush(ls, queue_key(queue), json_dumps(value))

\* the llen result is computed and dropped: the method has no return statement
Redis_length_of_queue(ls, queue) ==
    LET n == llen(ls, queue_key(queue))
    IN  RNone

Redis_get_from_queue(ls, queue, timeout) == blpop(ls, queue_key(queue), timeout)

(***************************************************************************)
(* SpecQueue: one caller, one action per queue method                      *)
(***************************************************************************)
QCall(op, queue, value, res) == [op |-> op, queue |-> queue, value |-> value, res |-> res]

QueueInit ==
    /\ lists = [k \in ListKeys |-> <<>>]
    /\ pushed = [q \in QueueNames |-> <<>>]
    /\ qret = QCall("init", NA, RNone, RNone)
    /\ qprev = [lists |-> lists, pushed |-> pushed]

QPush(q, v) ==
    /\ Len(lists[queue_key(q)]) < MaxQueueLen
    /\ lists' = Redis_put_on_queue(lists, q, v)
    /\ pushed' = [pushed EXCEPT ![q] = Append(@, v)]
    /\ qret' = QCall("push", q, v, RNone)
    /\ qprev' = [lists |-> lists, pushed |-> pushed]

QPop(q, timeout) ==
    LET r == Redis_get_from_queue(lists, q, timeout)
    IN  /\ lists' = r.ls
        /\ pushed' = [pushed EXCEPT ![q] = IF @ = <<>> THEN @ ELSE Tail(@)]
        /\ qret' = QCall("pop", q, RNone, r.res)
        /\ qprev' = [lists |-> lists, pushed |-> pushed]

QLength(q) ==
    /\ qret' = QCall("length", q, RNone, Redis_length_of_queue(lists, q))
    /\ qprev' = [lists |-> lists, pushed |-> pushed]
    /\ UNCHANGED <<lists, pushed>>

QueueNext ==
    \/ \E q \in QueueNames, v \in QueueValues : QPush(q, v)
    \/ \E q \in QueueNames, t \in Timeouts : QPop(q, t)
    \/ \E q \in QueueNames : QLength(q)

(***************************************************************************)
(* RedisWrapper: publish/subscribe                                         *)
(***************************************************************************)
Channels == {"c", "d"}
Messages == {"ping", "pong"}
\* timeout=None
NoTimeout == -1
SubTimeouts == {NoTimeout, 1, 2}
\* a callback is given by the invocation on which it returns False (it returns
\* True before); NeverStop: it returns True every time
NeverStop == 0
Callbacks == {NeverStop, 1, 2}
\* callback_function=None, and the built-in callback it stands for: it counts
\* its invocations in callback_function.i and returns False once i >= 10
NoCallback == -1
DefaultCallback == 10
ResolveCallback(cb) == IF cb = NoCallback THEN DefaultCallback ELSE cb
Methods == {"process", "thread"}
\* the seconds field of a timedelta counts within one day
SecondsPerDay == 86400
\* the most publishes, and the seconds of the modelled clock after each of its
\* two origins: the loop's first seconds, and the same seconds one day later;
\* for a loop without timeout, which never reads the clock, the seconds of its
\* sleeps, and the most publishes to a loop with the built-in callback
MaxPublished == 2
MaxTime == 3
MaxUntimed == 9
MaxDefaultPublished == 10
ClockValues ==
    IF sub.timeout = NoTimeout
    THEN 0..MaxUntimed
    ELSE (0..MaxTime) \cup (SecondsPerDay..(SecondsPerDay + MaxTime))
\* time passes by a second, or by a day (a callback or a stall that lasts so long)
TickSteps == {1, SecondsPerDay}

\* what the handle yields for the server's reply to SUBSCRIBE (the handle is
\* created with ignore_subscribe_messages left False) and for a published value
SubscribeMessage(channel) ==
    [type |-> "subscribe", channel |-> PyBytes(channel), data |-> PyInt(1)]
PublishedMessage(channel, value) ==
    [type |-> "message", channel |-> PyBytes(channel), data |-> PyBytes(value)]

get_message_newest(buf) ==
    IF buf = <<>>
    THEN [msg |-> RNone, buf |-> buf]
    ELSE [msg |-> buf[Len(buf)], buf |-> SubSeq(buf, 1, Len(buf) - 1)]
\* pubsub.get_message(): the next arrived message, or None at once
get_message(buf) ==
    IF buf = <<>>
    THEN [msg |-> RNone, buf |-> buf]
    ELSE [msg |-> Head(buf), buf |-> Tail(buf)]

\* the continuation signal of the n-th invocation of callback cb
callback_function_late(cb, n) == ~(cb # NeverStop /\ n > cb)
callback_function(cb, n) == ~(cb # NeverStop /\ n >= cb)

\* (datetime.datetime.now() - start).seconds
duration(t, t0) == (t - t0) % SecondsPerDay

\* the positions of subscription_while_task inside its while loop
LoopRunning == {"poll", "callback", "timeout", "sleep"}

SubInit ==
    /\ sub = [channel |-> NA, callback |-> NeverStop, timeout |-> NoTimeout,
              sync |-> TRUE, method |-> "process"]
    /\ cpc = "idle"
    /\ lpc = "none"
    /\ subscribed = FALSE
    /\ wire = <<>>
    /\ subbuf = <<>>
    /\ msg = RNone
    /\ calls = <<>>
    /\ now = 0
    /\ start = 0
    /\ published = <<>>

SubscribeToChannel_detached(ch, cb, to, sync, method) ==
    /\ cpc = "idle"
    /\ sub' = [channel |-> ch, callback |-> ResolveCallback(cb), timeout |-> to,
               sync |-> sync, method |-> method]
    /\ cpc' = "returned"
    /\ lpc' = "create"
    /\ UNCHANGED <<subscribed, wire, subbuf, msg, calls, now, start, published>>
\* subscribe_to_channel -> _start_subscription: inline the caller enters the
\* loop; otherwise a Process or Thread is started and the caller returns
SubscribeToChannel(ch, cb, to, sync, method) ==
    /\ cpc = "idle"
    /\ sub' = [channel |-> ch, callback |-> ResolveCallback(cb), timeout |-> to,
               sync |-> sync, method |-> method]
    /\ cpc' = IF sync THEN "in_loop" ELSE "returned"
    /\ lpc' = "create"
    /\ UNCHANGED <<subscribed, wire, subbuf, msg, calls, now, start, published>>

\* sub_object = self.create_subscribe_object(channel); start = now()
LoopCreate ==
    /\ lpc = "create"
    /\ subscribed' = TRUE
    /\ wire' = Append(wire, SubscribeMessage(sub.channel))
    /\ start' = now
    /\ lpc' = "poll"
    /\ UNCHANGED <<sub, cpc, subbuf, msg, calls, now, published>>

\* msg = sub_object.get_message(); if msg: ...
LoopPoll ==
    /\ lpc = "poll"
    /\ LET r == get_message(subbuf)
       IN  /\ msg' = r.msg
           /\ subbuf' = r.buf
           /\ lpc' = IF r.msg # RNone THEN "callback" ELSE "timeout"
    /\ UNCHANGED <<sub, cpc, subscribed, wire, calls, now, start, published>>

LoopCallback_drain ==
    /\ lpc = "callback"
    /\ calls' = Append(calls, msg)
    /\ IF ~callback_function(sub.callback, Len(calls) + 1)
       THEN lpc' = "done" /\ UNCHANGED <<msg, subbuf>>
       ELSE IF subbuf # <<>>
       THEN lpc' = "callback" /\ msg' = Head(subbuf) /\ subbuf' = Tail(subbuf)
       ELSE lpc' = "timeout" /\ UNCHANGED <<msg, subbuf>>
    /\ UNCHANGED <<sub, cpc, subscribed, wire, now, start, published>>
\* continue_ = callback_function(msg); if not continue_: break
LoopCallback ==
    /\ lpc = "callback"
    /\ calls' = Append(calls, msg)
    /\ lpc' = IF callback_function(sub.callback, Len(calls) + 1) THEN "timeout" ELSE "done"
    /\ UNCHANGED <<sub, cpc, subscribed, wire, subbuf, msg, now, start, published>>

\* if timeout is not None: ... if duration > timeout: break
LoopTimeout ==
    /\ lpc = "timeout"
    /\ lpc' = IF sub.timeout # NoTimeout /\ duration(now, start) > sub.timeout
              THEN "done" ELSE "sleep"
    /\ UNCHANGED <<sub, cpc, subscribed, wire, subbuf, msg, calls, now, start, published>>

\* time.sleep(1)
LoopSleep ==
    /\ lpc = "sleep"
    /\ now + 1 \in ClockValues
    /\ now' = now + 1
    /\ lpc' = "poll"
    /\ UNCHANGED <<sub, cpc, subscribed, wire, subbuf, msg, calls, start, published>>

\* inline, subscribe_to_channel returns when the loop has ended
LoopReturn ==
    /\ lpc = "done"
    /\ cpc = "in_loop"
    /\ cpc' = "returned"
    /\ UNCHANGED <<sub, lpc, subscribed, wire, subbuf, msg, calls, now, start, published>>

\* time passes while the loop is between two of its steps
Tick(d) ==
    /\ lpc \in {"poll", "callback", "timeout"}
    /\ now + d \in ClockValues
    /\ now' = now + d
    /\ UNCHANGED <<sub, cpc, lpc, subscribed, wire, subbuf, msg, calls, start, published>>

\* a message in transit arrives at the handle
NetDeliver ==
    /\ wire # <<>>
    /\ subbuf' = Append(subbuf, Head(wire))
    /\ wire' = Tail(wire)
    /\ UNCHANGED <<sub, cpc, lpc, subscribed, msg, calls, now, start, published>>

\* publish_to_channel, by any client: the server sends the value to the
\* channel's current subscribers and keeps nothing
PublishUpTo(ch, value, most) ==
    /\ Len(published) < most
    /\ published' = Append(published, [channel |-> ch, data |-> value,
                                       running |-> lpc \in LoopRunning,
                                       ended |-> lpc = "done" /\ cpc = "returned",
                                       sent |-> subscribed /\ ch = sub.channel])
    /\ wire' = IF subscribed /\ ch = sub.channel
               THEN Append(wire, PublishedMessage(ch, value))
               ELSE wire
    /\ UNCHANGED <<sub, cpc, lpc, subscribed, subbuf, msg, calls, now, start>>

PublishToChannel(ch, value) == PublishUpTo(ch, value, MaxPublished)

\* the loop never unsubscribes or closes sub_object: after the loop has ended
\* the handle is garbage, and its subscription ends when its finalizer runs
\* (or the loop's process exits), at a time the code does not decide
HandleCollected ==
    /\ lpc = "done"
    /\ subscribed
    /\ subscribed' = FALSE
    /\ UNCHANGED <<sub, cpc, lpc, wire, subbuf, msg, calls, now, start, published>>

SubNext ==
    \/ \E ch \in Channels, cb \in Callbacks, to \in SubTimeouts,
          sync \in BOOLEAN, method \in Methods :
           /\ sync => method = "process"
           /\ SubscribeToChannel(ch, cb, to, sync, method)
    \/ LoopCreate
    \/ LoopPoll
    \/ LoopCallback
    \/ LoopTimeout
    \/ LoopSleep
    \/ LoopReturn
    \/ \E d \in TickSteps : Tick(d)
    \/ HandleCollected
    \/ NetDeliver
    \/ \E ch \in Channels, value \in Messages : PublishToChannel(ch, value)

\* subscribe_to_channel(channel) with callback_function and timeout left at
\* None, and the publishes that reach its loop
DefaultChannel == "c"
DefaultMessage == "ping"
SubDefaultNext ==
    \/ \E sync \in BOOLEAN, method \in Methods :
           /\ sync => method = "process"
           /\ SubscribeToChannel(DefaultChannel, NoCallback, NoTimeout, sync, method)
    \/ LoopCreate
    \/ LoopPoll
    \/ LoopCallback
    \/ LoopTimeout
    \/ LoopSleep
    \/ LoopReturn
    \/ HandleCollected
    \/ NetDeliver
    \/ PublishUpTo(DefaultChannel, DefaultMessage, MaxDefaultPublished)

(***************************************************************************)
(* PostgresWrapper (dbwrapper/postgres.py): Python values and psycopg2.sql *)
(***************************************************************************)
\* a str, a list, a tuple and a dict (a record of its keys) as tagged values;
\* None is RNone, an int is PyInt
Str(s) == [type |-> "str", s |-> s]
List(items) == [type |-> "list", items |-> items]
TupleOf(items) == [type |-> "tuple", items |-> items]
Dict(d) == [type |-> "dict", d |-> d]

Map(F(_), seq) == [i \in 1..Len(seq) |-> F(seq[i])]

\* sep.join(strs)
RECURSIVE join(_, _)
join(sep, strs) ==
    IF strs = <<>> THEN ""
    ELSE IF Len(strs) = 1 THEN strs[1]
    ELSE strs[1] \o sep \o join(sep, Tail(strs))

\* str.lower() on the method and condition words that occur
lower(s) ==
    CASE s \in {"asc", "ASC", "Asc"} -> "asc"
      [] s \in {"desc", "DESC", "Desc"} -> "desc"
      [] s \in {"in", "IN", "In"} -> "in"
      [] OTHER -> s

\* sql.Identifier(name) and sql.Placeholder() as they are rendered
Identifier(name) == "\"" \o name \o "\""
Placeholder == "%s"

(***************************************************************************)
(* PostgresWrapper: connection options                                     *)
(***************************************************************************)
\* _get_full_args appends to the list it is given, and joins it
Pg_get_full_args(ca, schema) ==
    LET l == IF schema # PyNone
             THEN Append(ca, "-c search_path=" \o schema) ELSE ca
    IN  [connect_args |-> l, args |-> join(" ", l)]

\* args = self._get_full_args(self.connect_args, schema=schema)
\*        if schema is not None else self.args
CallArgs(self, schema) ==
    IF schema # PyNone
    THEN Pg_get_full_args(self.connect_args, schema)
    ELSE [connect_args |-> self.connect_args, args |-> self.args]

(***************************************************************************)
(* PostgresWrapper: validation of a table descriptor                       *)
(***************************************************************************)
\* _assert_columns
Pg_assert_columns_lax(columns, group) == "ok"
Pg_assert_columns(columns, group) ==
    IF columns = RNone THEN "ok"
    ELSE IF columns.type # "list" THEN "AssertionError"
    ELSE IF group = RNone
    THEN IF \A i \in 1..Len(columns.items) : columns.items[i].type = "str"
         THEN "ok" ELSE "AssertionError"
    ELSE IF \E i \in 1..Len(columns.items) : columns.items[i].type # "dict"
    THEN "AssertionError"
    ELSE IF \A i \in 1..Len(columns.items) :
                {"column", "func"} \subseteq DOMAIN columns.items[i].d
    THEN "ok" ELSE "AssertionError"

\* _assert_order_by: for each entry in turn, its keys, then the methods of
\* all the entries (order["method"] raises KeyError where the key is missing)
RECURSIVE assert_order_from(_, _)
assert_order_from(items, i) ==
    IF i > Len(items) THEN "ok"
    ELSE IF items[i].type # "dict" THEN "AssertionError"
    ELSE IF ~(DOMAIN items[i].d \subseteq {"column", "method"})
    THEN "AssertionError"
    ELSE IF \E j \in 1..Len(items) : "method" \notin DOMAIN items[j].d
    THEN "KeyError"
    ELSE IF \E j \in 1..Len(items) : lower(items[j].d.method) \notin {"asc", "desc"}
    THEN "AssertionError"
    ELSE assert_order_from(items, i + 1)

Pg_assert_order_by_lax(order_by) == "ok"
Pg_assert_order_by(order_by) ==
    IF order_by = RNone THEN "ok" ELSE assert_order_from(order_by.items, 1)

(***************************************************************************)
(* PostgresWrapper: building the SELECT statement, as it is rendered       *)
(***************************************************************************)
Built(err, s) == [err |-> err, s |-> s]

AggColumn_unnamed(col) ==
    ", " \o col.d.func \o "(" \o Identifier(col.d.column) \o ") AS "
         \o col.d.func \o "_" \o col.d.column
\* ", {}({}) AS {}".format(col["func"], "{}", name) with its Identifier
AggColumn(col) ==
    LET name == IF "new_name" \in DOMAIN col.d THEN col.d.new_name
                ELSE col.d.func \o "_" \o col.d.column
    IN  ", " \o col.d.func \o "(" \o Identifier(col.d.column) \o ") AS " \o name

ColumnName(col) == Identifier(col.s)

\* _get_column_sql_string
Pg_get_column_sql_string(columns, group) ==
    IF columns = RNone
    THEN IF group = RNone
         THEN Built("ok", "SELECT * ")
         ELSE Built("ok", "SELECT " \o join(",", Map(Identifier, group.items)) \o " ")
    ELSE IF group = RNone
    THEN IF \E i \in 1..Len(columns.items) : columns.items[i].type # "str"
         THEN Built("TypeError", NA)
         ELSE Built("ok", "SELECT " \o join(",", Map(ColumnName, columns.items)))
    ELSE IF \E i \in 1..Len(columns.items) : columns.items[i].type # "dict"
    THEN Built("TypeError", NA)
    ELSE IF \E i \in 1..Len(columns.items) :
                ~({"column", "func"} \subseteq DOMAIN columns.items[i].d)
    THEN Built("KeyError", NA)
    ELSE Built("ok", "SELECT " \o join(",", Map(Identifier, group.items))
                         \o join("", Map(AggColumn, columns.items)))

\* "{} {} {}".format("{}", cond["condition"], "{}") with its Identifier and
\* Placeholder
Condition(cond) ==
    Identifier(cond.d.column) \o " " \o cond.d.condition \o " " \o Placeholder

\* the loop over the conditions that collects the values: the value of an
\* "in" condition is replaced, in the caller's dict, by a tuple; one that is
\* neither list nor tuple raises ValueError
RECURSIVE where_values(_, _, _)
where_values(items, i, values) ==
    IF i > Len(items) THEN [err |-> "ok", items |-> items, values |-> values]
    ELSE IF lower(items[i].d.condition) = "in"
    THEN IF items[i].d.value.type \in {"list", "tuple"}
         THEN LET t == TupleOf(items[i].d.value.items)
              IN  where_values([items EXCEPT ![i].d.value = t], i + 1,
                               Append(values, t))
         ELSE [err |-> "ValueError", items |-> items, values |-> values]
    ELSE where_values(items, i + 1, Append(values, items[i].d.value))

\* _get_where_condition: the text, the values, and the caller's list after it
Pg_get_where_condition(where_condition) ==
    IF where_condition = RNone
    THEN [err |-> "ok", s |-> "", values |-> RNone, after |-> RNone]
    ELSE LET wv == where_values(where_condition.items, 1, <<>>)
         IN  [err |-> wv.err,
              s |-> " WHERE " \o join(" and ", Map(Condition, where_condition.items)),
              values |-> List(wv.values),
              after |-> List(wv.items)]

OrderColumn(order) == Identifier(order.d.column) \o " " \o order.d.method

\* _get_order_by
Pg_get_order_by(order_by) ==
    IF order_by = RNone THEN Built("ok", "")
    ELSE IF \E i \in 1..Len(order_by.items) :
                ~({"column", "method"} \subseteq DOMAIN order_by.items[i].d)
    THEN Built("KeyError", NA)
    ELSE Built("ok", " ORDER BY " \o join(", ", Map(OrderColumn, order_by.items)))

(***************************************************************************)
(* PostgresWrapper: the public methods.  self is the adapter's             *)
(* connect_args and args, rows the committed rows of the table, verdict    *)
(* the server's answer to the statement (ok, or the error it raises).      *)
(* An outcome tells how the call ended, the statement it built, the        *)
(* options it connected with, how many connections it opened, what it sent *)
(* to the server, how many connections are still open after it returned,   *)
(* the caller's descriptor after the call, and the stage the call got to:  *)
(* validation, building (of the statement) or connection.                  *)
(***************************************************************************)
Outcome(self, rows, err, stmt, options, opened, executed, leftopen, after) ==
    [self |-> self, rows |-> rows, err |-> err, stmt |-> stmt,
     options |-> options, opened |-> opened, executed |-> executed,
     leftopen |-> leftopen, after |-> after,
     stage |-> IF opened > 0 THEN "connection" ELSE "returned"]

\* an error raised before psycopg2.connect
Raised(self, rows, err, after, stage) ==
    [Outcome(self, rows, err, NA, NA, 0, NA, 0, after) EXCEPT !.stage = stage]

\* get_query.  `with psycopg2.connect(...) as conn` ends the transaction when
\* the block is left (commit, or rollback on an exception) and does not close
\* the connection; nothing else closes it.  With fetch the connection is
\* unreferenced when the call returns and its destructor closes it; without,
\* the returned cursor keeps it open.
Pg_get_query(self, rows, query, fetch, schema, verdict) ==
    LET ca == CallArgs(self, schema)
        self2 == [self EXCEPT !.connect_args = ca.connect_args]
    IN  IF verdict # "ok"
        THEN Outcome(self2, rows, verdict, query, ca.args, 1, query, 0, RNone)
        ELSE Outcome(self2, rows, "ok", query, ca.args, 1, query,
                     IF fetch THEN 0 ELSE 1, RNone)

\* get_table
Pg_get_table(self, rows, d, schema, verdict) ==
    LET ac == Pg_assert_columns(d.columns, d.group)
        ao == Pg_assert_order_by(d.order_by)
        cs == Pg_get_column_sql_string(d.columns, d.group)
        wc == Pg_get_where_condition(d.where_condition)
        d2 == [d EXCEPT !.where_condition = wc.after]
        gb == IF d.group # RNone
              THEN " GROUP BY " \o join(", ", Map(Identifier, d.group.items))
              ELSE ""
        ob == Pg_get_order_by(d.order_by)
        string == cs.s \o " FROM " \o Identifier(d.table_name) \o wc.s \o gb
                      \o ob.s \o ";"
        q == Pg_get_query(self, rows, string, TRUE, schema, verdict)
    IN  IF ac # "ok" THEN Raised(self, rows, ac, d, "validation")
        ELSE IF ao # "ok" THEN Raised(self, rows, ao, d, "validation")
        ELSE IF cs.err # "ok" THEN Raised(self, rows, cs.err, d, "building")
        ELSE IF wc.err # "ok" THEN Raised(self, rows, wc.err, d2, "building")
        ELSE IF ob.err # "ok" THEN Raised(self, rows, ob.err, d2, "building")
        ELSE IF d.table_joins # RNone
        THEN Raised(self, rows, "NotImplementedError", d2, "building")
        ELSE [q EXCEPT !.after = d2]

\* get_column_names: with a table name it runs get_query with fetch left True,
\* which returns a DataFrame, and reads its .description
Pg_get_column_names(self, rows, table_name, cursor, schema, verdict) ==
    IF table_name = PyNone /\ cursor = PyNone
    THEN Raised(self, rows, "AssertionError", RNone, "validation")
    ELSE IF table_name # PyNone
    THEN LET q == Pg_get_query(self, rows,
                      "SELECT * from " \o table_name \o " LIMIT 1;",
                      TRUE, schema, verdict)
         IN  IF q.err # "ok" THEN q ELSE [q EXCEPT !.err = "AttributeError"]
    ELSE Outcome(self, rows, "ok", NA, NA, 0, NA, 0, RNone)

\* ', '.join('"' + col + '"' for col in cols): iterating None raises TypeError
JoinQuoted_NoneAsEmpty(cols) ==
    IF cols = RNone THEN Built("ok", "")
    ELSE Built("ok", join(", ", [i \in 1..Len(cols.items) |->
                                     "\"" \o cols.items[i] \o "\""]))
JoinQuoted(cols) ==
    IF cols = RNone THEN Built("TypeError", NA)
    ELSE Built("ok", join(", ", [i \in 1..Len(cols.items) |->
                                     "\"" \o cols.items[i] \o "\""]))

\* ', '.join('EXCLUDED."' + col + '"' for col in cols)
JoinExcluded(cols) ==
    join(", ", [i \in 1..Len(cols.items) |-> "EXCLUDED.\"" \o cols.items[i] \o "\""])

\* the characters of a column name, and of `columns`, the joined quoted names:
\* what iterating the str yields
Letters(name) ==
    CASE name = "id" -> <<"i", "d">>
      [] OTHER -> <<name>>

RECURSIVE ColumnsChars(_)
ColumnsChars(cols) ==
    IF cols = <<>> THEN <<>>
    ELSE IF Len(cols) = 1 THEN <<"\"">> \o Letters(cols[1]) \o <<"\"">>
    ELSE <<"\"">> \o Letters(cols[1]) \o <<"\"", ",", " ">> \o ColumnsChars(Tail(cols))

\* insert_from_df, up to the statement: the arguments have the asserted types
InsertStatement(in) ==
    LET df_columns == in.data.columns
        columns == JoinQuoted(List(df_columns)).s
        values == "VALUES(" \o join(",", [i \in 1..Len(df_columns) |-> "%s"]) \o ")"
        insert_stmt == "INSERT INTO " \o in.table_name \o " (" \o columns \o ") "
                           \o values
        update_cols == IF in.update_cols = RNone
                       THEN List(ColumnsChars(df_columns)) ELSE in.update_cols
        ids == JoinQuoted(in.id_cols)
    IN  IF in.on_conflict = "do_nothing"
        THEN IF in.id_cols = RNone
             THEN Built("ok", insert_stmt \o " ON CONFLICT DO NOTHING")
             ELSE Built(ids.err, insert_stmt \o " ON CONFLICT (" \o ids.s \o ") DO NOTHING")
        ELSE IF in.on_conflict = "do_update"
        THEN IF ids.err # "ok" THEN ids
             ELSE IF Len(update_cols.items) > 1
             THEN Built("ok", insert_stmt \o " ON CONFLICT(" \o ids.s
                                  \o ") DO UPDATE SET (" \o JoinQuoted(update_cols).s
                                  \o ") = (" \o JoinExcluded(update_cols) \o ")")
             ELSE Built("ok", insert_stmt \o " ON CONFLICT(" \o ids.s
                                  \o ") DO UPDATE SET " \o JoinQuoted(update_cols).s
                                  \o " = " \o JoinExcluded(update_cols))
        ELSE Built("ok", insert_stmt)

\* insert_from_df.  The rows are written inside `with psycopg2.connect(...)`:
\* leaving the block commits them (or rolls back if execute_batch raised);
\* `if commit: conn.commit()` comes after the block.  page_size only sets how
\* many rows go in one round trip.
RowsAfterBlock(rows, data, commit) ==
    rows \cup {data.rows[i] : i \in 1..Len(data.rows)}

Pg_insert_from_df(self, rows, in, verdict) ==
    LET ca == CallArgs(self, in.schema)
        self2 == [self EXCEPT !.connect_args = ca.connect_args]
        st == InsertStatement(in)
    IN  IF st.err # "ok" THEN Raised(self2, rows, st.err, RNone, "building")
        ELSE IF verdict # "ok"
        THEN Outcome(self2, rows, verdict, st.s, ca.args, 1, st.s, 0, RNone)
        ELSE Outcome(self2, RowsAfterBlock(rows, in.data, in.commit), "ok",
                     st.s, ca.args, 1, st.s, 0, RNone)

(***************************************************************************)
(* SpecPg and SpecPgTable: one caller, one action per PostgresWrapper      *)
(* method.  SpecPgTable calls get_table with every table descriptor;       *)
(* SpecPg calls every method, get_table with the plain descriptors.        *)
(***************************************************************************)
\* the longest connect_args and the most cursors the caller holds
MaxConnectArgs == 2
MaxCursors == 1

Schemas == {PyNone, "s1"}
Verdicts == {"ok", "ProgrammingError"}
CtorArgs ==
    { [connect_args |-> <<>>, schema |-> PyNone],
      [connect_args |-> <<"-c statement_timeout=5000">>, schema |-> "public"] }

Plain == Str("amount")
Agg == Dict([column |-> "amount", func |-> "sum"])
AggAlias == Dict([column |-> "price", func |-> "max", new_name |-> "top"])
ColumnLists ==
    {RNone, List(<<Plain>>), List(<<Agg>>), List(<<Plain, Agg>>),
     List(<<Agg, AggAlias>>)}
Groups == {RNone, List(<<"region">>), List(<<"region", "year">>)}

Eq == Dict([column |-> "amount", condition |-> "=", value |-> PyInt(5)])
InList == Dict([column |-> "region", condition |-> "in",
                value |-> List(<<"north", "south">>)])
InScalar == Dict([column |-> "amount", condition |-> "IN", value |-> PyInt(5)])
Wheres == {RNone, List(<<InList>>), List(<<Eq, InScalar>>), List(<<InList, InScalar>>)}

Order(method) == Dict([column |-> "amount", method |-> method])
OrderExtraKey == Dict([column |-> "amount", method |-> "asc", nulls |-> "first"])
OrderNoMethod == Dict([column |-> "amount"])
OrderBys ==
    {RNone, List(<<Order("asc")>>), List(<<Order("DESC")>>),
     List(<<Order("sideways")>>), List(<<Order("Desc"), Order("sideways")>>),
     List(<<Order("asc"), OrderExtraKey>>), List(<<OrderNoMethod>>)}
Joins == {RNone, List(<<"orders">>)}

TableDescriptors ==
    [table_name : {"t"}, columns : ColumnLists, group : Groups,
     where_condition : Wheres, order_by : OrderBys, table_joins : Joins]
PlainDescriptors ==
    [table_name : {"t"}, columns : {RNone}, group : {RNone},
     where_condition : {RNone, List(<<InList>>)}, order_by : {RNone},
     table_joins : {RNone}]

Frames ==
    { [columns |-> <<"id">>, rows |-> <<"r1">>],
      [columns |-> <<"id", "v">>, rows |-> <<"r1", "r2">>] }
Inserts ==
    [data : Frames, table_name : {"t"}, page_size : {1, 1000},
     commit : BOOLEAN, on_conflict : {PyNone, "do_nothing", "do_update"},
     id_cols : {RNone, List(<<"id">>)}, update_cols : {RNone, List(<<"v">>)},
     schema : Schemas]

PgSelf == [connect_args |-> connect_args, args |-> args]
NoOutcome == Outcome(PgSelf, pgrows, "ok", NA, NA, 0, NA, 0, RNone)

PgInit ==
    /\ connect_args = <<>>
    /\ args = ""
    /\ pgctor = [built |-> FALSE, connect_args |-> <<>>, args |-> ""]
    /\ cursors = 0
    /\ pgrows = {}
    /\ pret = [op |-> "none", in |-> RNone, out |-> NoOutcome]
    /\ pprev = [self |-> PgSelf, rows |-> pgrows, cursors |-> cursors]

\* __init__
PgNew(c) ==
    /\ ~pgctor.built
    /\ LET r == Pg_get_full_args(c.connect_args, c.schema)
       IN  /\ connect_args' = r.connect_args
           /\ args' = r.args
           /\ pgctor' = [built |-> TRUE, connect_args |-> r.connect_args,
                         args |-> r.args]
    /\ UNCHANGED <<cursors, pgrows, pret, pprev>>

\* a call with outcome r
PgCall(op, in, r) ==
    /\ pgctor.built
    /\ Len(r.self.connect_args) <= MaxConnectArgs
    /\ cursors + r.leftopen <= MaxCursors
    /\ connect_args' = r.self.connect_args
    /\ args' = r.self.args
    /\ pgrows' = r.rows
    /\ cursors' = cursors + r.leftopen
    /\ pret' = [op |-> op, in |-> in, out |-> r]
    /\ pprev' = [self |-> PgSelf, rows |-> pgrows, cursors |-> cursors]
    /\ UNCHANGED pgctor

PgGetQuery(query, fetch, schema, verdict) ==
    PgCall("get_query", [query |-> query, fetch |-> fetch, schema |-> schema],
           Pg_get_query(PgSelf, pgrows, query, fetch, schema, verdict))

PgGetTable(d, schema, verdict) ==
    PgCall("get_table", [d |-> d, schema |-> schema],
           Pg_get_table(PgSelf, pgrows, d, schema, verdict))

PgGetColumnNames(table_name, cursor, schema, verdict) ==
    /\ cursor # PyNone => cursors > 0
    /\ PgCall("get_column_names",
              [table_name |-> table_name, cursor |-> cursor, schema |-> schema],
              Pg_get_column_names(PgSelf, pgrows, table_name, cursor, schema, verdict))

PgInsertFromDf(in, verdict) ==
    PgCall("insert_from_df", in, Pg_insert_from_df(PgSelf, pgrows, in, verdict))

\* the caller closes or drops a cursor that get_query returned: its connection
\* is closed
PgReleaseCursor ==
    /\ cursors > 0
    /\ cursors' = cursors - 1
    /\ UNCHANGED <<connect_args, args, pgctor, pgrows, pret, pprev>>

PgTableNext ==
    \/ \E c \in CtorArgs : PgNew(c)
    \/ \E d \in TableDescriptors, verdict \in Verdicts : PgGetTable(d, PyNone, verdict)

PgNext ==
    \/ \E c \in CtorArgs : PgNew(c)
    \/ \E fetch \in BOOLEAN, schema \in Schemas, verdict \in Verdicts :
           PgGetQuery("SELECT 1;", fetch, schema, verdict)
    \/ \E d \in PlainDescriptors, schema \in Schemas, verdict \in Verdicts :
           PgGetTable(d, schema, verdict)
    \/ \E table_name \in {PyNone, "t"}, cursor \in {PyNone, "cursor"},
          schema \in Schemas, verdict \in Verdicts :
           PgGetColumnNames(table_name, cursor, schema, verdict)
    \/ \E in \in Inserts, verdict \in Verdicts : PgInsertFromDf(in, verdict)
    \/ PgReleaseCursor

(***************************************************************************)
(* RedisWrapper: the key-value store.  SpecKv: one caller inside           *)
(* get_value_by_key, one server command per step, while other clients set  *)
(* and delete keys                                                         *)
(***************************************************************************)
KvKeys == {"a", "b"}
KvValues == {"v1", "v2"}
KvAbsent == [type |-> "absent"]

\* SET stores the value as bytes; GET returns them, or None; EXISTS counts
redis_set(st, name, value) == [st EXCEPT ![name] = PyBytes(value)]
redis_get(st, name) == IF st[name] = KvAbsent THEN RNone ELSE st[name]
redis_exists(st, name) == PyInt(IF st[name] = KvAbsent THEN 0 ELSE 1)
redis_delete(st, name) == [st EXCEPT ![name] = KvAbsent]

\* RedisWrapper.exists
Redis_exists(st, keys) == redis_exists(st, keys)

\* the values stored under the key in st
Stored(st, name) == IF st[name] = KvAbsent THEN {} ELSE {st[name]}

KvInit ==
    /\ kv = [k \in KvKeys |-> KvAbsent]
    /\ kvpc = "idle"
    /\ kvkey = NA
    /\ kvseen = {}
    /\ kvret = [op |-> "none", key |-> NA, err |-> "ok", res |-> RNone,
                seen |-> {}]

\* get_value_by_key is called
KvCall(k) ==
    /\ kvpc = "idle"
    /\ kvpc' = "exists"
    /\ kvkey' = k
    /\ kvseen' = Stored(kv, k)
    /\ UNCHANGED <<kv, kvret>>

\* if not self.exists(key): raise KeyError
KvExists ==
    /\ kvpc = "exists"
    /\ IF Redis_exists(kv, kvkey).v = 0
       THEN /\ kvpc' = "idle"
            /\ kvret' = [op |-> "get_value_by_key", key |-> kvkey,
                         err |-> "KeyError", res |-> RNone,
                         seen |-> kvseen]
       ELSE /\ kvpc' = "get"
            /\ UNCHANGED kvret
    /\ UNCHANGED <<kv, kvkey, kvseen>>

\* value = self.conn.get(key); return value
KvGet ==
    /\ kvpc = "get"
    /\ kvpc' = "idle"
    /\ kvret' = [op |-> "get_value_by_key", key |-> kvkey, err |-> "ok",
                 res |-> redis_get(kv, kvkey), seen |-> kvseen]
    /\ UNCHANGED <<kv, kvkey, kvseen>>

\* set_value_by_key, by any client
KvSet(k, v) ==
    /\ kv' = redis_set(kv, k, v)
    /\ kvseen' = IF kvpc # "idle" /\ k = kvkey
                 THEN kvseen \cup {PyBytes(v)} ELSE kvseen
    /\ UNCHANGED <<kvpc, kvkey, kvret>>

\* another client deletes the key (or the key expires)
KvDelete(k) ==
    /\ kv[k] # KvAbsent
    /\ kv' = redis_delete(kv, k)
    /\ UNCHANGED <<kvpc, kvkey, kvseen, kvret>>

KvNext ==
    \/ \E k \in KvKeys : KvCall(k)
    \/ KvExists
    \/ KvGet
    \/ \E k \in KvKeys, v \in KvValues : KvSet(k, v)
    \/ \E k \in KvKeys : KvDelete(k)

(***************************************************************************)
(* Claims about MongoWrapper                                               *)
(***************************************************************************)
\* the namespace a call with keyword arguments kw is to address: each override
\* if passed, else the default the adapter was constructed with
TargetNs(kw) ==
    << IF kw.database = NoArg THEN "db0" ELSE kw.database,
       IF kw.collection = NoArg THEN "c0" ELSE kw.collection >>

\* C1: whatever the store held for k, set(k, v) completes and a following get(k)
\* in the same namespace returns v.
C1_SetThenGetReturnsValue ==
    mret.op = "set" =>
        /\ mret.err = "ok"
        /\ Mongo_get(store, mret.key, mret.kw) = [err |-> "ok", res |-> mret.val]

\* C2: two callers set the same initially absent key concurrently: both calls
\* complete without raising and the key's one record holds the value of the
\* write applied last.
C2_UpsertRaceBothComplete ==
    (/\ rpc["A"] = "done"
     /\ rpc["B"] = "done"
     /\ rargs["A"].key = rargs["B"].key) =>
        /\ rerr["A"] = "ok"
        /\ rerr["B"] = "ok"
        /\ Len(applied) = 2
        /\ find_one(store, <<"db0", "c0">>, rargs["A"].key)
             = rargs[applied[Len(applied)]].value

\* C3: get(k) on a key absent from the targeted namespace raises KeyError,
\* returns no value and leaves the store unchanged.
C3_GetAbsentRaisesKeyError ==
    (/\ mret.op = "get"
     /\ mprev[TargetNs(mret.kw)][mret.key] = NoDoc) =>
        /\ mret.err = "KeyError"
        /\ mret.res = NA
        /\ store = mprev

C3_Witness ==
    /\ mret.op = "get"
    /\ mprev[TargetNs(mret.kw)][mret.key] = NoDoc
    /\ mret.err = "KeyError"
    /\ DocCount(store) = MaxDocs

\* C4: exists(k) returns a truthy result exactly when a record with identifier k
\* is in the targeted namespace.
C4_ExistsTellsPresence ==
    mret.op = "exists" =>
        (Truthy(mret.res) <=> mprev[TargetNs(mret.kw)][mret.key] # NoDoc)

\* C5: delete(k) raises nothing; afterwards get(k) in that namespace raises
\* KeyError; every record with another identifier is unchanged, so delete of an
\* absent key changes nothing.
C5_DeleteRemovesOnlyKey ==
    mret.op = "delete" =>
        LET ns == TargetNs(mret.kw)
        IN  /\ mret.err = "ok"
            /\ Mongo_get(store, mret.key, mret.kw).err = "KeyError"
            /\ mprev[ns][mret.key] = NoDoc => store = mprev
            /\ \A n \in Namespaces, k \in Keys :
                   <<n, k>> # <<ns, mret.key>> => store[n][k] = mprev[n][k]

C5_Witness ==
    /\ mret.op = "delete"
    /\ mprev[TargetNs(mret.kw)][mret.key] \in Payloads
    /\ store[TargetNs(mret.kw)][mret.key] = NoDoc
    /\ DocCount(store) = 1

\* C6: flush empties the target its keyword arguments select (only a database:
\* every collection of it; a collection, with or without a database: that
\* collection; nothing: the default collection), leaves every record outside
\* the target unchanged and completes without error.
FlushTarget(kw) ==
    IF kw.collection # NoArg THEN {TargetNs(kw)}
    ELSE IF kw.database # NoArg THEN {kw.database} \X Colls
    ELSE {<<"db0", "c0">>}

C6_FlushDropsSelectedTarget ==
    mret.op = "flush" =>
        /\ mret.err = "ok"
        /\ \A n \in Namespaces :
               store[n] = IF n \in FlushTarget(mret.kw) THEN EmptyColl ELSE mprev[n]

\* C7: set, get and delete address the namespace given by the database override
\* (else the default database) and the collection override (else the default
\* collection), each resolved on its own: the call's result and effect are those
\* of that namespace, every other namespace is unchanged, and so are the
\* adapter's defaults.
C7_NamespaceOverride ==
    mret.op \in {"set", "get", "delete"} =>
        LET ns == TargetNs(mret.kw)
            k == mret.key
        IN  /\ \A n \in Namespaces \ {ns} : store[n] = mprev[n]
            /\ \A j \in Keys \ {k} : store[ns][j] = mprev[ns][j]
            /\ database = "db0" /\ collection = "c0"
            /\ mret.op = "set" =>
                   IF mprev[ns][k] = NoDoc
                   THEN mret.err = "ok" /\ store[ns][k] = mret.val
                   ELSE mret.err = "DuplicateKeyError" /\ store = mprev
            /\ mret.op = "get" =>
                   /\ store = mprev
                   /\ IF mprev[ns][k] \in {NoDoc, PyNone}
                      THEN mret.err = "KeyError"
                      ELSE mret.err = "ok" /\ mret.res = mprev[ns][k]
            /\ mret.op = "delete" => store[ns][k] = NoDoc

C7_Witness ==
    /\ mret.op = "set"
    /\ mret.kw = [database |-> NoArg, collection |-> "c1"]
    /\ mret.err = "ok"
    /\ store[<<"db0", "c1">>][mret.key] = mret.val
    /\ store[<<"db1", "c0">>][mret.key] \in Payloads

(***************************************************************************)
(* Claims about RedisWrapper's queues                                      *)
(***************************************************************************)
\* C8: pops return the pushed values in push order, each equal to the value
\* that was pushed and removed from the queue; a pop on an empty queue returns
\* None and leaves the queue empty.
C8_PopReturnsPushedValuesFifo ==
    qret.op = "pop" =>
        LET before == qprev.pushed[qret.queue]
        IN  IF before = <<>>
            THEN qret.res = RNone /\ lists[queue_key(qret.queue)] = <<>>
            ELSE /\ qret.res = Head(before)
                 /\ Len(lists[queue_key(qret.queue)]) = Len(before) - 1

\* C9: length(queue) returns the number of entries pushed and not yet popped
\* and does not change the queue.
C9_LengthReturnsCount ==
    qret.op = "length" =>
        /\ qret.res = PyInt(Len(pushed[qret.queue]))
        /\ lists = qprev.lists

(***************************************************************************)
(* Claims about RedisWrapper's subscription loop                           *)
(***************************************************************************)
\* C10: one message is published to channel c while the loop runs with a
\* callback that returns False on its first message (and no timeout); when the
\* loop has ended, the callback was invoked exactly once, with that message.
C10_LoopEndsOnThePublishedMessage ==
    (/\ lpc = "done"
     /\ sub.callback = 1
     /\ sub.timeout = NoTimeout
     /\ Len(published) = 1
     /\ published[1].channel = sub.channel
     /\ published[1].running) =>
        calls = <<PublishedMessage(sub.channel, published[1].data)>>

\* C11: with a timeout set, the loop ends by timeout once the time since its
\* start exceeds the timeout (a timeout check that lets the loop go on found
\* the elapsed time at most the timeout), and it never ends by timeout while
\* the elapsed time is at most the timeout.
EndedByTimeout ==
    lpc = "done" /\ (calls = <<>> \/ callback_function(sub.callback, Len(calls)))

C11_TimeoutEndsLoop ==
    sub.timeout # NoTimeout =>
        /\ lpc = "sleep" => now - start <= sub.timeout
        /\ EndedByTimeout => now - start > sub.timeout

\* C12: inline (sync) the caller has returned only when the loop has ended;
\* concurrent, the caller has returned as soon as the loop is started, whatever
\* the loop is doing.
C12_ExecutionMode ==
    /\ (sub.sync /\ cpc = "returned") => lpc = "done"
    /\ (~sub.sync /\ lpc # "none") => cpc = "returned"

C12_Witness ==
    /\ ~sub.sync
    /\ cpc = "returned"
    /\ lpc = "callback"
    /\ Len(published) = 1
    /\ published[1].running
    /\ msg = PublishedMessage(sub.channel, published[1].data)

\* C13: the loop moves only poll -> (callback ->) timeout check -> sleep ->
\* poll: one poll taking at most one message, at most one callback invocation
\* and one timeout check per iteration; a callback that has started completes
\* before the loop does anything else, and the loop ends only from a completed
\* callback or from the timeout check.
LoopSteps ==
    { <<"none", "create">>, <<"create", "poll">>, <<"poll", "callback">>,
      <<"poll", "timeout">>, <<"callback", "timeout">>, <<"callback", "done">>,
      <<"timeout", "sleep">>, <<"timeout", "done">>, <<"sleep", "poll">> }

C13_NonPreemptiveLoop ==
    [][/\ lpc' # lpc => <<lpc, lpc'>> \in LoopSteps
       /\ calls' # calls =>
              /\ lpc = "callback"
              /\ lpc' \in {"timeout", "done"}
              /\ calls' = Append(calls, msg)
       /\ (lpc = "callback" /\ lpc' # lpc) => calls' = Append(calls, msg)
       /\ subbuf' # subbuf =>
              \/ wire # <<>> /\ subbuf' = Append(subbuf, Head(wire))
              \/ lpc = "poll" /\ lpc' = "callback" /\ subbuf' = Tail(subbuf)
      ]_subVars

C13_Witness ==
    /\ lpc = "callback"
    /\ sub.timeout # NoTimeout
    /\ now - start > sub.timeout
    /\ subbuf # <<>>

\* C24: once the loop has ended its handle is no longer subscribed: a message
\* published after the loop has ended (and, inline, subscribe_to_channel has
\* returned) is not sent to the handle.  (Stated for a loop run inline or on
\* a thread; a loop's own process exits when the loop ends.)
C24_HandleEndsWithLoop ==
    (sub.sync \/ sub.method = "thread") =>
        \A i \in 1..Len(published) : published[i].ended => ~published[i].sent

\* C25: a loop started with no callback and no timeout has ended exactly when
\* the built-in callback has been invoked 10 times: it is still running after
\* each of the invocations 1 to 9, it ends with the 10th, and there is no 11th.
DefaultLoop ==
    /\ lpc # "none"
    /\ sub.callback = DefaultCallback
    /\ sub.timeout = NoTimeout

C25_DefaultCallbackStopsAtTen ==
    DefaultLoop =>
        /\ Len(calls) <= DefaultCallback
        /\ (lpc = "done") <=> (Len(calls) = DefaultCallback)

C25_Witness ==
    /\ DefaultLoop
    /\ lpc = "done"
    /\ Len(calls) = DefaultCallback
    /\ cpc = "returned"

\* the published values the callback has been invoked with, in call order, and
\* the messages published to the loop's channel while the loop was running
Dispatched == SelectSeq(calls, LAMBDA m : m.type = "message")
PublishedToLoop ==
    LET during == SelectSeq(published,
                            LAMBDA p : p.running /\ p.channel = sub.channel)
    IN  [i \in 1..Len(during) |-> PublishedMessage(during[i].channel, during[i].data)]

RECURSIVE IsSubsequence(_, _)
IsSubsequence(s, t) ==
    IF s = <<>> THEN TRUE
    ELSE IF t = <<>> THEN FALSE
    ELSE \/ Head(s) = Head(t) /\ IsSubsequence(Tail(s), Tail(t))
         \/ IsSubsequence(s, Tail(t))

\* C26: the published messages passed to the callback are, in call order, a
\* subsequence of the messages published to the channel while the loop was
\* running (each at most once, in publication order); the callback is never
\* invoked with the no-message indicator: a poll that finds nothing leads to
\* no invocation; and no invocation is made once the loop has ended.
C26_DispatchOrder ==
    /\ [](/\ IsSubsequence(Dispatched, PublishedToLoop)
          /\ \A i \in 1..Len(calls) : calls[i] # RNone
          /\ lpc = "callback" => msg # RNone)
    /\ [][/\ lpc = "done" => calls' = calls
          /\ (lpc = "poll" /\ subbuf = <<>>) => (calls' = calls /\ lpc' # "callback")
        ]_subVars

C26_Witness ==
    /\ lpc = "done"
    /\ Len(Dispatched) = 2
    /\ Dispatched[1] # Dispatched[2]
    /\ msg = Dispatched[2]

(***************************************************************************)
(* Claims about PostgresWrapper                                            *)
(***************************************************************************)
\* the outcome of the last call shows no connection and no statement
NothingSent(out) ==
    /\ out.opened = 0
    /\ out.options = NA
    /\ out.stmt = NA
    /\ out.executed = NA
    /\ out.leftopen = 0

\* a column list with a plain name and an aggregation spec
Mixed(columns) ==
    /\ columns # RNone
    /\ \E i \in 1..Len(columns.items) : columns.items[i].type = "str"
    /\ \E i \in 1..Len(columns.items) : columns.items[i].type = "dict"

\* C14: get_table rejects a column list that mixes plain names and aggregation
\* specs in validation: nothing is built, no connection is opened, nothing is
\* executed; a call that gets past validation with an aggregation spec among
\* its columns has only aggregation specs.
C14_MixedColumnsRejected ==
    pret.op = "get_table" =>
        /\ Mixed(pret.in.d.columns) =>
               /\ pret.out.err # "ok"
               /\ pret.out.stage = "validation"
               /\ NothingSent(pret.out)
        /\ ( /\ pret.out.stage # "validation"
             /\ pret.in.d.columns # RNone
             /\ \E i \in 1..Len(pret.in.d.columns.items) :
                    pret.in.d.columns.items[i].type = "dict" )
           => \A i \in 1..Len(pret.in.d.columns.items) :
                  pret.in.d.columns.items[i].type = "dict"

C14_Witness ==
    /\ pret.op = "get_table"
    /\ pret.in.d.columns = List(<<Plain, Agg>>)
    /\ pret.in.d.group # RNone
    /\ pret.in.d.order_by = RNone
    /\ pret.out.err = "AssertionError"
    /\ pret.out.opened = 0

\* the spellings of the two methods
AscDesc == {"asc", "Asc", "ASC", "desc", "Desc", "DESC"}

\* some entry has a key other than column and method, or a method that is
\* neither asc nor desc
IllFormedOrder(order_by) ==
    /\ order_by # RNone
    /\ \E i \in 1..Len(order_by.items) :
           \/ ~(DOMAIN order_by.items[i].d \subseteq {"column", "method"})
           \/ /\ "method" \in DOMAIN order_by.items[i].d
              /\ order_by.items[i].d.method \notin AscDesc

\* every entry has only the keys column and method, and its method is asc or
\* desc in some letter case
WellFormedOrder(order_by) ==
    /\ order_by # RNone
    /\ \A i \in 1..Len(order_by.items) :
           /\ DOMAIN order_by.items[i].d \subseteq {"column", "method"}
           /\ "method" \in DOMAIN order_by.items[i].d
           /\ order_by.items[i].d.method \in AscDesc

\* C15: get_table fails in validation, with no connection opened, for every
\* ill-formed order-by list; a well-formed one, in any letter case, passes
\* validation (when the columns do).
C15_OrderByValidated ==
    pret.op = "get_table" =>
        /\ IllFormedOrder(pret.in.d.order_by) =>
               /\ pret.out.err # "ok"
               /\ pret.out.stage = "validation"
               /\ NothingSent(pret.out)
        /\ ( /\ WellFormedOrder(pret.in.d.order_by)
             /\ Pg_assert_columns(pret.in.d.columns, pret.in.d.group) = "ok" )
           => pret.out.stage # "validation"

C15_Witness ==
    /\ pret.op = "get_table"
    /\ pret.in.d.columns = RNone
    /\ pret.in.d.order_by = List(<<Order("Desc"), Order("sideways")>>)
    /\ pret.out.err = "AssertionError"
    /\ pret.out.stage = "validation"

\* C16: a get_table call rejected for an "in" value that is neither list nor
\* tuple, or for requested table joins, opened no connection and sent nothing,
\* and left the server, the adapter and the caller's descriptor as they were.
C16_RejectedCallLeavesNoTrace ==
    ( /\ pret.op = "get_table"
      /\ pret.out.err \in {"ValueError", "NotImplementedError"} )
    => /\ NothingSent(pret.out)
       /\ pgrows = pprev.rows
       /\ cursors = pprev.cursors
       /\ PgSelf = pprev.self
       /\ pret.out.after = pret.in.d

\* C17: insert_from_df with on_conflict "do_update" and no id_cols fails with
\* no connection opened and no row written, whatever the data, page_size and
\* commit.
C17_UpsertNeedsIdCols ==
    ( /\ pret.op = "insert_from_df"
      /\ pret.in.on_conflict = "do_update"
      /\ pret.in.id_cols = RNone )
    => /\ pret.out.err # "ok"
       /\ pret.out.stage # "connection"
       /\ NothingSent(pret.out)
       /\ pgrows = pprev.rows

C17_Witness ==
    /\ pret.op = "insert_from_df"
    /\ pret.in.on_conflict = "do_update"
    /\ pret.in.id_cols = RNone
    /\ pret.in.commit
    /\ pret.in.page_size = 1
    /\ Len(pret.in.data.rows) = 2
    /\ pret.out.err = "TypeError"
    /\ pgrows = {}

\* C18: the rows insert_from_df wrote are committed only if commit is true:
\* after a call with commit false the table has the rows it had before.
C18_DurableOnlyIfCommitted ==
    (pret.op = "insert_from_df" /\ ~pret.in.commit) => pgrows = pprev.rows

\* C19: a call opens at most one connection and has released it when it ends:
\* between calls no connection is open.
C19_ConnectionsScopedToCall ==
    /\ pret.out.opened <= 1
    /\ pret.out.leftopen = 0
    /\ cursors = 0

\* C20: after any calls, with or without a schema, the adapter's connect_args
\* and args are what the constructor left.
C20_ConnectionOptionsKept ==
    pgctor.built =>
        /\ connect_args = pgctor.connect_args
        /\ args = pgctor.args

\* the expression the claim gives for an aggregation spec, and its name
AggName(col) ==
    IF "new_name" \in DOMAIN col.d THEN col.d.new_name
    ELSE col.d.func \o "_" \o col.d.column

AggExpression(col) ==
    col.d.func \o "(\"" \o col.d.column \o "\") AS " \o AggName(col)

Quoted(name) == "\"" \o name \o "\""

\* C21: for a descriptor with a group-by list and aggregation specs the
\* statement sent selects the group-by columns, then func(column) AS name for
\* each aggregation spec in list order (name is func_column unless new_name
\* is given), FROM the table, (the filter,) GROUP BY the group-by columns
\* (, the ordering).
C21_GroupedSelect ==
    ( /\ pret.op = "get_table"
      /\ pret.out.stage = "connection"
      /\ pret.in.d.group # RNone
      /\ pret.in.d.columns # RNone )
    => LET d == pret.in.d
       IN  pret.out.executed =
               "SELECT " \o join(",", Map(Quoted, d.group.items))
                   \o join("", [i \in 1..Len(d.columns.items) |->
                                    ", " \o AggExpression(d.columns.items[i])])
                   \o " FROM " \o Quoted(d.table_name)
                   \o Pg_get_where_condition(d.where_condition).s
                   \o " GROUP BY " \o join(", ", Map(Quoted, d.group.items))
                   \o Pg_get_order_by(d.order_by).s \o ";"

C21_Witness ==
    /\ pret.op = "get_table"
    /\ pret.in.d.group = List(<<"region", "year">>)
    /\ pret.in.d.columns = List(<<Agg, AggAlias>>)
    /\ pret.out.executed =
           "SELECT \"region\",\"year\", sum(\"amount\") AS sum_amount, max(\"price\") AS top FROM \"t\" GROUP BY \"region\", \"year\";"

\* the columns the claim says a do_update sets: update_cols, or all the
\* columns of the data
UpdatedColumns(in) ==
    IF in.update_cols = RNone THEN in.data.columns ELSE in.update_cols.items

ExcludedOf(name) == "EXCLUDED.\"" \o name \o "\""

\* C22: with on_conflict "do_update" and id_cols given, the statement sent is
\* the INSERT followed by a conflict clause on exactly id_cols that sets
\* exactly the updated columns (update_cols, or every column of the data
\* once), each to EXCLUDED's value of the same column.
C22_UpsertClause ==
    ( /\ pret.op = "insert_from_df"
      /\ pret.in.on_conflict = "do_update"
      /\ pret.in.id_cols # RNone
      /\ pret.out.stage = "connection" )
    => LET in == pret.in
           u == UpdatedColumns(in)
           names == join(", ", Map(Quoted, u))
           excluded == join(", ", Map(ExcludedOf, u))
       IN  pret.out.executed =
               InsertStatement([in EXCEPT !.on_conflict = PyNone]).s
                   \o " ON CONFLICT(" \o join(", ", Map(Quoted, in.id_cols.items))
                   \o ") DO UPDATE SET "
                   \o (IF Len(u) > 1
                       THEN "(" \o names \o ") = (" \o excluded \o ")"
                       ELSE names \o " = " \o excluded)

(***************************************************************************)
(* Claims about RedisWrapper's key-value store                             *)
(***************************************************************************)
\* C23: a get_value_by_key call ends with KeyError or returns a value that
\* was stored under the key at some time during the call; it never returns
\* None.
C23_GetReturnsStoredValueOrKeyError ==
    kvret.op = "get_value_by_key" =>
        \/ kvret.err = "KeyError"
        \/ /\ kvret.err = "ok"
           /\ kvret.res # RNone
           /\ kvret.res \in kvret.seen

(***************************************************************************)
(* Specifications                                                          *)
(***************************************************************************)
vars == <<mongoVars, raceVars, queueVars, subVars, pgVars, kvVars>>

Init == MongoInit /\ RaceInit /\ QueueInit /\ SubInit /\ PgInit /\ KvInit

SpecMongo ==
    Init /\ [][MongoNext /\ UNCHANGED <<raceVars, queueVars, subVars, pgVars, kvVars>>]_vars

SpecRace ==
    Init /\ [][/\ RaceNext
               /\ UNCHANGED <<database, collection, mret, mprev, queueVars,
                              subVars, pgVars, kvVars>>]_vars

SpecQueue ==
    Init /\ [][QueueNext /\ UNCHANGED <<mongoVars, raceVars, subVars, pgVars, kvVars>>]_vars

SpecSub ==
    Init /\ [][SubNext /\ UNCHANGED <<mongoVars, raceVars, queueVars, pgVars, kvVars>>]_vars

SpecPg ==
    Init /\ [][PgNext /\ UNCHANGED <<mongoVars, raceVars, queueVars, subVars, kvVars>>]_vars

SpecSubDefault ==
    Init /\ [][SubDefaultNext /\ UNCHANGED <<mongoVars, raceVars, queueVars, pgVars, kvVars>>]_vars

SpecKv ==
    Init /\ [][KvNext /\ UNCHANGED <<mongoVars, raceVars, queueVars, subVars, pgVars>>]_vars

SpecPgTable ==
    Init /\ [][PgTableNext /\ UNCHANGED <<mongoVars, raceVars, queueVars, subVars, kvVars>>]_vars

Next ==
    \/ MongoNext /\ UNCHANGED <<raceVars, queueVars, subVars, pgVars, kvVars>>
    \/ RaceNext /\ UNCHANGED <<database, collection, mret, mprev, queueVars,
                               subVars, pgVars, kvVars>>
    \/ QueueNext /\ UNCHANGED <<mongoVars, raceVars, subVars, pgVars, kvVars>>
    \/ SubNext /\ UNCHANGED <<mongoVars, raceVars, queueVars, pgVars, kvVars>>
    \/ SubDefaultNext /\ UNCHANGED <<mongoVars, raceVars, queueVars, pgVars, kvVars>>
    \/ PgNext /\ UNCHANGED <<mongoVars, raceVars, queueVars, subVars, kvVars>>
    \/ PgTableNext /\ UNCHANGED <<mongoVars, raceVars, queueVars, subVars, kvVars>>
    \/ KvNext /\ UNCHANGED <<mongoVars, raceVars, queueVars, subVars, pgVars>>

Spec == Init /\ [][Next]_vars

====
